---- MODULE Spec2Model ----
(***************************************************************************)
(* Mief: a two-player paddle-and-ball game.  Model of the simulation core  *)
(* (elements/ball.rs, elements/player.rs, elements/field.rs), of the       *)
(* scoreboard and the event loop of application.rs, and of the process     *)
(* (main.rs, execution_flow/exit.rs).                                      *)
(*                                                                         *)
(* Numbers.  The source computes with f64.  The model computes with        *)
(* integers: lengths are whole field units, and a time span dt is a whole  *)
(* number of tenths of a second, so that speed * dt is Mul(speed, dt).     *)
(* Speeds are multiples of 10 units per second, which keeps every product  *)
(* exact.  Field sizes are even, which keeps width / 2.0 exact.            *)
(* A Rust pair p is the sequence <<p.0, p.1>>; the array players[0..1] is  *)
(* the sequence players[1..2].                                             *)
(***************************************************************************)
EXTENDS Integers, Sequences, FiniteSets, TLC

VARIABLES
    ball,               \* Field.ball
    last_speed_change,  \* Field.last_speed_change, in tenths of a second
    players,            \* Field.players
    height,             \* Field.height
    width,              \* Field.width
    status,             \* the BallStatus Ball.update returned in the call made last, or "none"
    call,               \* the single call under test, with its arguments (unit specifications)
    scoreboard,         \* Application.scoreboard.scores
    process             \* the process: where main is, what it printed, its exit status

vars == <<ball, last_speed_change, players, height, width, status, call, scoreboard, process>>

(***************************************************************************)
(* Bounds of the model.                                                    *)
(***************************************************************************)
\* Highest score a player is allowed to reach in the explored runs.
MaxScore == 1
\* Most periodic speed-ups in a row before one has to be reset by a score.
MaxSpeedUps == 1
\* Width in bits of the model's signed machine integer (isize).
IsizeBits == 4

(***************************************************************************)
(* elements/ball.rs                                                        *)
(***************************************************************************)
BallStatus == {"LeftOnLeftSide", "LeftOnRightSide", "WithinGame"}

\* speed * dt for a dt given in tenths of a second.
Mul(speed, dt) == (speed * dt) \div 10

\* The speeds rng.gen_range(100.0, 150.0) is let to return.
SpawnSpeeds == {100, 140}

\* Ball::new drawing one sign for both axes.
Ball_new_one_sign(window_size) ==
    LET w == window_size[1]
        h == window_size[2]
        radius == 5
        x == w \div 2 - radius
        y == h \div 2 - radius
        position == << IF x < 0 THEN 0 ELSE x, IF y < 0 THEN 0 ELSE y >>
    IN  { [diameter |-> radius * 2, position |-> position, speed |-> <<sx * g, sy * g>>] :
            sx \in SpawnSpeeds, sy \in SpawnSpeeds, g \in {-1, 1} }

\* The balls Ball::new can return: centred, with a random speed on each axis.
Ball_new(window_size) ==
    LET w == window_size[1]
        h == window_size[2]
        radius == 5
        x == w \div 2 - radius
        y == h \div 2 - radius
        position == << IF x < 0 THEN 0 ELSE x, IF y < 0 THEN 0 ELSE y >>
    IN  { [diameter |-> radius * 2, position |-> position, speed |-> <<sx * gx, sy * gy>>] :
            sx \in SpawnSpeeds, gx \in {-1, 1}, sy \in SpawnSpeeds, gy \in {-1, 1} }

\* Did the ball hit the object from the top or bottom?
hit_horizontal_edge(diameter, next_position, object) ==
    LET radius == diameter \div 2
        x == next_position[1]
        y == next_position[2]
    IN  /\ x + radius >= object[1]
        /\ x + radius <= object[3]
        /\ y + diameter >= object[2]
        /\ y <= object[4]

\* hit_lateral_edge taking a ball up to 20 left of the object for one that hits it.
hit_lateral_edge_early(diameter, next_position, object) ==
    LET radius == diameter \div 2
        x == next_position[1]
        y == next_position[2]
    IN  /\ y + radius >= object[2]
        /\ y + radius <= object[4]
        /\ x + diameter >= object[1] - 20
        /\ x <= object[3]

\* hit_lateral_edge missing a ball that just touches the object's right side.
hit_lateral_edge_strict(diameter, next_position, object) ==
    LET radius == diameter \div 2
        x == next_position[1]
        y == next_position[2]
    IN  /\ y + radius >= object[2]
        /\ y + radius <= object[4]
        /\ x + diameter >= object[1]
        /\ x < object[3]

\* Did the ball hit the object on the left or right side?
hit_lateral_edge(diameter, next_position, object) ==
    LET radius == diameter \div 2
        x == next_position[1]
        y == next_position[2]
    IN  /\ y + radius >= object[2]
        /\ y + radius <= object[4]
        /\ x + diameter >= object[1]
        /\ x <= object[3]

\* collide_with losing half of the horizontal speed in a hit on a lateral edge.
collide_with_damped(b, next_position, object) ==
    LET s1 == IF hit_horizontal_edge(b.diameter, next_position, object)
              THEN <<b.speed[1], -b.speed[2]>> ELSE b.speed
        s2 == IF hit_lateral_edge(b.diameter, next_position, object)
              THEN <<-(s1[1] \div 2), s1[2]>> ELSE s1
    IN  [b EXCEPT !.speed = s2]

\* Ball::collide_with: the ball with its direction reversed where it hits.
collide_with(b, next_position, object) ==
    LET s1 == IF hit_horizontal_edge(b.diameter, next_position, object)
              THEN <<b.speed[1], -b.speed[2]>> ELSE b.speed
        s2 == IF hit_lateral_edge(b.diameter, next_position, object)
              THEN <<-s1[1], s1[2]>> ELSE s1
    IN  [b EXCEPT !.speed = s2]

\* The loop of Ball::update over the obstacles, in order.
RECURSIVE collide_all(_, _, _)
collide_all(b, next_position, objects) ==
    IF objects = <<>> THEN b
    ELSE collide_all(collide_with(b, next_position, Head(objects)), next_position, Tail(objects))

leaving_on_left_side(position, progress_x) ==
    position[1] + progress_x < 0

leaving_on_right_side(b, progress_x, w) ==
    b.position[1] + b.diameter + progress_x > w

leaving_on_top(position, progress_y) ==
    position[2] + progress_y < 0

\* leaving_on_bottom testing the ball's top edge instead of its bottom edge.
leaving_on_bottom_top_edge(b, progress_y, h) ==
    b.position[2] + progress_y > h

leaving_on_bottom(b, progress_y, h) ==
    b.position[2] + b.diameter + progress_y > h

\* reposition without the bottom branch.
reposition_top_only(b, h) ==
    IF b.position[2] < 0 THEN [b EXCEPT !.position[2] = 0] ELSE b

\* Ensure the ball is entirely within the window on the y-axis.
reposition(b, h) ==
    IF b.position[2] < 0 THEN [b EXCEPT !.position[2] = 0]
    ELSE IF b.position[2] + b.diameter > h THEN [b EXCEPT !.position[2] = h - b.diameter]
    ELSE b

\* The move of Ball::update once the ball is known to stay within the field.
move_within(b, dt, progress_y, h) ==
    LET b1 == IF leaving_on_top(b.position, progress_y) \/ leaving_on_bottom(b, progress_y, h)
              THEN [b EXCEPT !.speed[2] = -b.speed[2]] ELSE b
        b2 == [b1 EXCEPT !.position = << b1.position[1] + Mul(b1.speed[1], dt),
                                         b1.position[2] + Mul(b1.speed[2], dt) >>]
    IN  reposition(b2, h)

\* Ball::update testing the exits with the progress of the speed after the collisions.
Ball_update_exit_after_flip(b, dt, w, h, objects) ==
    LET progress_y == Mul(b.speed[2], dt)
        next_position == <<b.position[1] + Mul(b.speed[1], dt), b.position[2] + progress_y>>
        b1 == collide_all(b, next_position, objects)
        progress_x == Mul(b1.speed[1], dt)
    IN  IF leaving_on_left_side(b1.position, progress_x)
        THEN [ball |-> b1, status |-> "LeftOnLeftSide"]
        ELSE IF leaving_on_right_side(b1, progress_x, w)
        THEN [ball |-> b1, status |-> "LeftOnRightSide"]
        ELSE [ball |-> move_within(b1, dt, progress_y, h), status |-> "WithinGame"]

\* Ball::update moving the ball to the tentative position before it tests the exits.
Ball_update_moves_on_exit(b, dt, w, h, objects) ==
    LET progress_x == Mul(b.speed[1], dt)
        progress_y == Mul(b.speed[2], dt)
        next_position == <<b.position[1] + progress_x, b.position[2] + progress_y>>
        b1 == collide_all(b, next_position, objects)
    IN  IF leaving_on_left_side(b1.position, progress_x)
        THEN [ball |-> [b1 EXCEPT !.position = next_position], status |-> "LeftOnLeftSide"]
        ELSE IF leaving_on_right_side(b1, progress_x, w)
        THEN [ball |-> [b1 EXCEPT !.position = next_position], status |-> "LeftOnRightSide"]
        ELSE [ball |-> move_within(b1, dt, progress_y, h), status |-> "WithinGame"]

\* Ball::update moving the ball horizontally by the progress of the speed on entry.
Ball_update_entry_progress(b, dt, w, h, objects) ==
    LET progress_x == Mul(b.speed[1], dt)
        progress_y == Mul(b.speed[2], dt)
        next_position == <<b.position[1] + progress_x, b.position[2] + progress_y>>
        b1 == collide_all(b, next_position, objects)
        b2 == move_within(b1, dt, progress_y, h)
    IN  IF leaving_on_left_side(b1.position, progress_x)
        THEN [ball |-> b1, status |-> "LeftOnLeftSide"]
        ELSE IF leaving_on_right_side(b1, progress_x, w)
        THEN [ball |-> b1, status |-> "LeftOnRightSide"]
        ELSE [ball |-> [b2 EXCEPT !.position[1] = next_position[1]], status |-> "WithinGame"]

\* Ball::update: the ball after the call and the status returned.
Ball_update(b, dt, w, h, objects) ==
    LET progress_x == Mul(b.speed[1], dt)
        progress_y == Mul(b.speed[2], dt)
        next_position == <<b.position[1] + progress_x, b.position[2] + progress_y>>
        b1 == collide_all(b, next_position, objects)
    IN  IF leaving_on_left_side(b1.position, progress_x)
        THEN [ball |-> b1, status |-> "LeftOnLeftSide"]
        ELSE IF leaving_on_right_side(b1, progress_x, w)
        THEN [ball |-> b1, status |-> "LeftOnRightSide"]
        ELSE [ball |-> move_within(b1, dt, progress_y, h), status |-> "WithinGame"]

\* Ball::change_speed: each component grows in magnitude by amount.
Ball_change_speed(b, amount) ==
    [b EXCEPT !.speed = << IF b.speed[1] < 0 THEN b.speed[1] - amount ELSE b.speed[1] + amount,
                           IF b.speed[2] < 0 THEN b.speed[2] - amount ELSE b.speed[2] + amount >>]

(***************************************************************************)
(* elements/player.rs                                                      *)
(***************************************************************************)
PLAYER_MARGIN == 10
SPEED == 150

Movement == {"Down", "None", "Up"}
FieldSide == {"Left", "Right"}

IsizeMax == 2 ^ (IsizeBits - 1) - 1
IsizeMin == -(2 ^ (IsizeBits - 1))

get_x_position(side, player_width, field_width) ==
    IF side = "Left" THEN PLAYER_MARGIN
    ELSE field_width - player_width - PLAYER_MARGIN

Player_new(side, field_width) ==
    [ field_side |-> side,
      movement   |-> "None",
      position   |-> <<get_x_position(side, 10, field_width), 0>>,
      score      |-> 0,
      size       |-> <<10, 60>>,
      speed      |-> SPEED ]

Player_change_speed(p, amount) == [p EXCEPT !.speed = p.speed + amount]

\* get_bounding_box returning the size in place of the right and bottom edges.
get_bounding_box_size(p) ==
    << p.position[1], p.position[2], p.size[1], p.size[2] >>

get_bounding_box(p) ==
    << p.position[1], p.position[2], p.position[1] + p.size[1], p.position[2] + p.size[2] >>

\* set_movement putting the player back at the top as well.
set_movement_home(p, movement) ==
    [p EXCEPT !.movement = movement, !.position = <<p.position[1], 0>>]

set_movement(p, movement) == [p EXCEPT !.movement = movement]

\* The Down arm leaving the player where it is when the step would pass the bottom.
move_down_stops_short(p, dt, h) ==
    LET y == p.position[2] + Mul(p.speed, dt)
    IN  [p EXCEPT !.position[2] = IF y + p.size[2] > h THEN p.position[2] ELSE y]

\* The Down arm without the test of the bottom edge.
move_down_unclamped(p, dt, h) ==
    [p EXCEPT !.position[2] = p.position[2] + Mul(p.speed, dt)]

\* The Down arm of Player::update.
move_down(p, dt, h) ==
    LET y == p.position[2] + Mul(p.speed, dt)
    IN  [p EXCEPT !.position[2] = IF y + p.size[2] > h THEN h - p.size[2] ELSE y]

\* The Up arm of Player::update.
move_up(p, dt) ==
    LET y == p.position[2] - Mul(p.speed, dt)
    IN  [p EXCEPT !.position[2] = IF y < 0 THEN 0 ELSE y]

Player_update(p, dt, h) ==
    CASE p.movement = "Down" -> move_down(p, dt, h)
      [] p.movement = "Up"   -> move_up(p, dt)
      [] OTHER               -> p

\* checked_add on the machine integer: <<TRUE, sum>> for Some(sum), <<FALSE, 0>> for None.
checked_add(a, b) ==
    IF a + b > IsizeMax \/ a + b < IsizeMin THEN <<FALSE, 0>> ELSE <<TRUE, a + b>>

\* update_score adding with wrap-around instead of checked_add.
update_score_wrapping(p, additional_points) ==
    LET sum == p.score + additional_points
        wrapped == ((sum - IsizeMin) % (2 ^ IsizeBits)) + IsizeMin
    IN  [p EXCEPT !.score = wrapped, !.speed = SPEED]

\* update_score without the test of the sign: every overflow gives isize::MIN.
update_score_min_on_overflow(p, additional_points) ==
    LET sum == checked_add(p.score, additional_points)
        new_score == IF sum[1] THEN sum[2] ELSE IsizeMin
    IN  [p EXCEPT !.score = new_score, !.speed = SPEED]

\* update_score resetting the speed only where the sum did not overflow.
update_score_keeps_speed(p, additional_points) ==
    LET sum == checked_add(p.score, additional_points)
        new_score == IF sum[1] THEN sum[2]
                     ELSE IF additional_points >= 0 THEN IsizeMax ELSE IsizeMin
    IN  [p EXCEPT !.score = new_score, !.speed = IF sum[1] THEN SPEED ELSE p.speed]

update_score(p, additional_points) ==
    LET sum == checked_add(p.score, additional_points)
        new_score == IF sum[1] THEN sum[2]
                     ELSE IF additional_points >= 0 THEN IsizeMax ELSE IsizeMin
    IN  [p EXCEPT !.score = new_score, !.speed = SPEED]

\* update_position taking every player for the left one.
update_position_left(p, new_field_width) ==
    [p EXCEPT !.position[1] = get_x_position("Left", p.size[1], new_field_width)]

update_position(p, new_field_width) ==
    [p EXCEPT !.position[1] = get_x_position(p.field_side, p.size[1], new_field_width)]

(***************************************************************************)
(* elements/field.rs                                                       *)
(***************************************************************************)
\* 10.0 seconds, in tenths of a second.
SPEED_CHANGE_INTERVAL == 100
SPEED_CHANGE == 10

\* Field::new making both players left players.
Field_new_both_left(size, b) ==
    [ ball |-> b,
      last_speed_change |-> 0,
      players |-> << Player_new("Left", size[1]), Player_new("Left", size[1]) >>,
      height |-> size[2],
      width |-> size[1] ]

\* A Field as a record of its five fields.
Field_new(size, b) ==
    [ ball |-> b,
      last_speed_change |-> 0,
      players |-> << Player_new("Left", size[1]), Player_new("Right", size[1]) >>,
      height |-> size[2],
      width |-> size[1] ]

get_player_scores(f) == << f.players[1].score, f.players[2].score >>

\* update_scores crediting the player on the side the ball left on.
update_scores_same_side(f, st) ==
    CASE st = "WithinGame"      -> {f}
      [] st = "LeftOnLeftSide"  ->
            { [f EXCEPT !.players[1] = update_score(f.players[1], 1), !.ball = fresh] :
                fresh \in Ball_new(<<f.width, f.height>>) }
      [] st = "LeftOnRightSide" ->
            { [f EXCEPT !.players[2] = update_score(f.players[2], 1), !.ball = fresh] :
                fresh \in Ball_new(<<f.width, f.height>>) }

\* update_scores giving a point to both players.
update_scores_both(f, st) ==
    IF st = "WithinGame" THEN {f}
    ELSE { [f EXCEPT !.players[1] = update_score(f.players[1], 1),
                     !.players[2] = update_score(f.players[2], 1), !.ball = fresh] :
             fresh \in Ball_new(<<f.width, f.height>>) }

\* update_scores resetting the speed of both players on a point.
update_scores_resets_both(f, st) ==
    CASE st = "WithinGame"      -> {f}
      [] st = "LeftOnLeftSide"  ->
            { [f EXCEPT !.players[2] = update_score(f.players[2], 1),
                        !.players[1].speed = SPEED, !.ball = fresh] :
                fresh \in Ball_new(<<f.width, f.height>>) }
      [] st = "LeftOnRightSide" ->
            { [f EXCEPT !.players[1] = update_score(f.players[1], 1),
                        !.players[2].speed = SPEED, !.ball = fresh] :
                fresh \in Ball_new(<<f.width, f.height>>) }

\* update_scores keeping the ball that left.
update_scores_stale_ball(f, st) ==
    CASE st = "WithinGame"      -> {f}
      [] st = "LeftOnLeftSide"  -> { [f EXCEPT !.players[2] = update_score(f.players[2], 1)] }
      [] st = "LeftOnRightSide" -> { [f EXCEPT !.players[1] = update_score(f.players[1], 1)] }

\* Field::update_scores: the fields it can leave, one for each ball Ball::new can
\* return on an exit.
update_scores(f, st) ==
    CASE st = "WithinGame"      -> {f}
      [] st = "LeftOnLeftSide"  ->
            { [f EXCEPT !.players[2] = update_score(f.players[2], 1), !.ball = fresh] :
                fresh \in Ball_new(<<f.width, f.height>>) }
      [] st = "LeftOnRightSide" ->
            { [f EXCEPT !.players[1] = update_score(f.players[1], 1), !.ball = fresh] :
                fresh \in Ball_new(<<f.width, f.height>>) }

\* The speed-up made once for every whole interval passed, the rest of the time kept.
speed_step_per_interval(f, dt) ==
    LET t == f.last_speed_change + dt
        n == t \div SPEED_CHANGE_INTERVAL
    IN  [f EXCEPT !.last_speed_change = t % SPEED_CHANGE_INTERVAL,
                  !.ball = Ball_change_speed(f.ball, n * SPEED_CHANGE),
                  !.players = << Player_change_speed(f.players[1], n * SPEED_CHANGE),
                                 Player_change_speed(f.players[2], n * SPEED_CHANGE) >>]

\* The speed-up firing only once the accumulator is above the interval.
speed_step_strict(f, dt) ==
    LET t == f.last_speed_change + dt
    IN  IF t > SPEED_CHANGE_INTERVAL
        THEN [f EXCEPT !.last_speed_change = 0,
                       !.ball = Ball_change_speed(f.ball, SPEED_CHANGE),
                       !.players = << Player_change_speed(f.players[1], SPEED_CHANGE),
                                      Player_change_speed(f.players[2], SPEED_CHANGE) >>]
        ELSE [f EXCEPT !.last_speed_change = t]

\* The first step of Field::on_update: the accumulator and the speed-up.
speed_step(f, dt) ==
    LET t == f.last_speed_change + dt
    IN  IF t >= SPEED_CHANGE_INTERVAL
        THEN [f EXCEPT !.last_speed_change = 0,
                       !.ball = Ball_change_speed(f.ball, SPEED_CHANGE),
                       !.players = << Player_change_speed(f.players[1], SPEED_CHANGE),
                                      Player_change_speed(f.players[2], SPEED_CHANGE) >>]
        ELSE [f EXCEPT !.last_speed_change = t]

\* The second step moving the left player only.
players_step_left_only(f, dt) ==
    [f EXCEPT !.players = << Player_update(f.players[1], dt, f.height), f.players[2] >>]

\* The second step: both players move.
players_step(f, dt) ==
    [f EXCEPT !.players = << Player_update(f.players[1], dt, f.height),
                             Player_update(f.players[2], dt, f.height) >>]

player_handles(f) == << get_bounding_box(f.players[1]), get_bounding_box(f.players[2]) >>

\* Field::on_update with the speeds updated after the players and the ball moved.
Field_on_update_late_speed_up(f, dt) ==
    LET f1 == players_step(f, dt)
        r == Ball_update(f1.ball, dt, f1.width, f1.height, player_handles(f1))
        f2 == speed_step([f1 EXCEPT !.ball = r.ball], dt)
    IN  { [field |-> f3, status |-> r.status] : f3 \in update_scores(f2, r.status) }

\* Field::on_update with the speeds updated last, after the scores.
Field_on_update_speed_up_last(f, dt) ==
    LET f1 == players_step(f, dt)
        r == Ball_update(f1.ball, dt, f1.width, f1.height, player_handles(f1))
        f2 == [f1 EXCEPT !.ball = r.ball]
    IN  { [field |-> speed_step(f3, dt), status |-> r.status] : f3 \in update_scores(f2, r.status) }

\* Field::on_update handing the ball the boxes the players had before they moved.
Field_on_update_stale_handles(f, dt) ==
    LET f0 == speed_step(f, dt)
        f1 == players_step(f0, dt)
        r == Ball_update(f1.ball, dt, f1.width, f1.height, player_handles(f0))
        f2 == [f1 EXCEPT !.ball = r.ball]
    IN  { [field |-> f3, status |-> r.status] : f3 \in update_scores(f2, r.status) }

\* Field::on_update: the fields the tick can leave, each with the status the ball
\* returned.
Field_on_update(f, dt) ==
    LET f1 == players_step(speed_step(f, dt), dt)
        r == Ball_update(f1.ball, dt, f1.width, f1.height, player_handles(f1))
        f2 == [f1 EXCEPT !.ball = r.ball]
    IN  { [field |-> f3, status |-> r.status] : f3 \in update_scores(f2, r.status) }

\* The ball as Ball::update leaves it in a tick of dt, before update_scores.
updated_ball(f, dt) ==
    LET f1 == players_step(speed_step(f, dt), dt)
    IN  Ball_update(f1.ball, dt, f1.width, f1.height, player_handles(f1)).ball

\* on_button_pressed moving the left player with the right player's Up key.
Field_on_button_pressed_crossed(f, key) ==
    CASE key = "W"    -> [f EXCEPT !.players[1] = set_movement(f.players[1], "Up")]
      [] key = "S"    -> [f EXCEPT !.players[1] = set_movement(f.players[1], "Down")]
      [] key = "Up"   -> [f EXCEPT !.players[1] = set_movement(f.players[1], "Up")]
      [] key = "Down" -> [f EXCEPT !.players[2] = set_movement(f.players[2], "Down")]
      [] OTHER        -> f

\* The button is a key name; a button that is not Button::Keyboard (MouseLeft)
\* falls through the if let, as a key without an arm does.
Field_on_button_pressed(f, key) ==
    CASE key = "W"    -> [f EXCEPT !.players[1] = set_movement(f.players[1], "Up")]
      [] key = "S"    -> [f EXCEPT !.players[1] = set_movement(f.players[1], "Down")]
      [] key = "Up"   -> [f EXCEPT !.players[2] = set_movement(f.players[2], "Up")]
      [] key = "Down" -> [f EXCEPT !.players[2] = set_movement(f.players[2], "Down")]
      [] OTHER        -> f

\* on_button_released stopping the right player on every key that is not W or S.
Field_on_button_released_any(f, key) ==
    CASE key \in {"W", "S"} -> [f EXCEPT !.players[1] = set_movement(f.players[1], "None")]
      [] OTHER               -> [f EXCEPT !.players[2] = set_movement(f.players[2], "None")]

Field_on_button_released(f, key) ==
    CASE key \in {"W", "S"}     -> [f EXCEPT !.players[1] = set_movement(f.players[1], "None")]
      [] key \in {"Up", "Down"} -> [f EXCEPT !.players[2] = set_movement(f.players[2], "None")]
      [] OTHER                  -> f

\* on_resize without the loop over the players.
Field_on_resize_keeps_x(f, new_width, new_height) ==
    [f EXCEPT !.width = new_width, !.height = new_height]

\* on_resize starting the time to the next speed-up anew.
Field_on_resize_resets_time(f, new_width, new_height) ==
    [f EXCEPT !.width = new_width,
              !.height = new_height,
              !.last_speed_change = 0,
              !.players = << update_position(f.players[1], new_width),
                             update_position(f.players[2], new_width) >>]

Field_on_resize(f, new_width, new_height) ==
    [f EXCEPT !.width = new_width,
              !.height = new_height,
              !.players = << update_position(f.players[1], new_width),
                             update_position(f.players[2], new_width) >>]

(***************************************************************************)
(* elements/scoreboard.rs: of a Scoreboard the model keeps its scores.     *)
(***************************************************************************)
Scoreboard_new == <<0, 0>>

\* The numbers on_render draws at the left and at the right margin.
Scoreboard_on_render(sb) == [left |-> sb[1], right |-> sb[2]]

Scoreboard_on_update(sb, scores) == scores

\* Scoreboard::on_resize takes a new size; the scores stay.
Scoreboard_on_resize(sb, new_width, new_height) == sb

(***************************************************************************)
(* execution_flow/error.rs and execution_flow/exit.rs.  A process is a     *)
(* record of where main is (pc) and of the lines it has printed (stdout);  *)
(* an exited process has its exit status (code) as well.                   *)
(***************************************************************************)
Code == {"Success", "PistonFailure", "IOFailure"}

\* impl From<Code> for i32
i32_from(code) ==
    CASE code = "Success"       -> 0
      [] code = "PistonFailure" -> 1
      [] code = "IOFailure"     -> 2

\* impl From<FindFolderError> for Error
Error_from_find_folder(error) == [kind |-> "IO", description |-> error]

\* impl From<String> for Error
Error_from_string(error) == [kind |-> "Piston", description |-> error]

quit(p, code) == [pc |-> "exited", code |-> code, stdout |-> p.stdout]

fail_with_message(p, exit_code, message) ==
    quit([p EXCEPT !.stdout = Append(p.stdout, <<"Error: ", message>>)], i32_from(exit_code))

\* fail_from_error with the two exit codes exchanged.
fail_from_error_swapped(p, error) ==
    CASE error.kind = "IO"     -> fail_with_message(p, "PistonFailure", error.description)
      [] error.kind = "Piston" -> fail_with_message(p, "IOFailure", error.description)

fail_from_error(p, error) ==
    CASE error.kind = "IO"     -> fail_with_message(p, "IOFailure", error.description)
      [] error.kind = "Piston" -> fail_with_message(p, "PistonFailure", error.description)

succeed(p) == quit(p, i32_from("Success"))

(***************************************************************************)
(* application.rs                                                          *)
(***************************************************************************)
SCOREBOARD_HEIGHT == 120

\* What building the window and searching the assets folder can give: "Ok", or
\* the error (a message of the window builder, an error of find_folder).
WindowResults == {"Ok", "no OpenGL context", "no display"}
AssetsResults == {"Ok", "NotFound", "IO"}

\* Application::new: the Results it can return, one per ball Ball::new can make.
Application_new(window, assets) ==
    LET new_width == 800
        new_height == 600
    IN  IF window # "Ok" THEN { [ok |-> FALSE, error |-> Error_from_string(window)] }
        ELSE IF assets # "Ok" THEN { [ok |-> FALSE, error |-> Error_from_find_folder(assets)] }
        ELSE { [ok |-> TRUE,
                field |-> Field_new(<<new_width, new_height - SCOREBOARD_HEIGHT>>, b),
                scoreboard |-> Scoreboard_new]
               : b \in Ball_new(<<new_width, new_height - SCOREBOARD_HEIGHT>>) }

\* Application::on_update passing on the scores of the field before the tick.
Application_on_update_stale(f, sb, dt) ==
    { [field |-> r.field, status |-> r.status,
       scoreboard |-> Scoreboard_on_update(sb, get_player_scores(f))]
      : r \in Field_on_update(f, dt) }

\* Application::on_update: the field, the scoreboard and the status of the ball
\* after it, one per ball the tick can make.
Application_on_update(f, sb, dt) ==
    { [field |-> r.field, status |-> r.status,
       scoreboard |-> Scoreboard_on_update(sb, get_player_scores(r.field))]
      : r \in Field_on_update(f, dt) }

(***************************************************************************)
(* The game: a Field driven by the event loop of Application::run.         *)
(***************************************************************************)
\* The process while Application::run runs.
Running == [pc |-> "run", stdout |-> <<>>]

\* The Field held by the variables.
field == [ ball |-> ball, last_speed_change |-> last_speed_change, players |-> players,
           height |-> height, width |-> width ]

SetFieldInit(f) ==
    /\ ball = f.ball
    /\ last_speed_change = f.last_speed_change
    /\ players = f.players
    /\ height = f.height
    /\ width = f.width

SetField(f) ==
    /\ ball' = f.ball
    /\ last_speed_change' = f.last_speed_change
    /\ players' = f.players
    /\ height' = f.height
    /\ width' = f.width

\* Field sizes [width, height] the game is started with or resized to.
FieldSizes == { <<1020, 120>>, <<1040, 80>> }
\* Tick lengths: 5 s and 10 s.
Dts == {50, 100}
\* Keys: the four bound ones and one that is not bound.
Keys == {"W", "S", "Up", "Down", "Space"}

NoCall == [op |-> "none"]

Init ==
    \E size \in FieldSizes : \E b \in Ball_new(size) :
        /\ SetFieldInit(Field_new(size, b))
        /\ status = "none"
        /\ call = NoCall
        /\ scoreboard = Scoreboard_new
        /\ process = Running

\* The explored runs stop growing scores and speeds at the bounds.
WithinBounds(f) ==
    /\ \A i \in 1..2 : f.players[i].score <= MaxScore
    /\ \A i \in 1..2 : f.players[i].speed <= SPEED + MaxSpeedUps * SPEED_CHANGE
    /\ \A i \in 1..2 : f.ball.speed[i] <= 150 + MaxSpeedUps * SPEED_CHANGE
    /\ \A i \in 1..2 : -f.ball.speed[i] <= 150 + MaxSpeedUps * SPEED_CHANGE

\* One tick of dt.
Tick(dt) ==
    \E r \in Application_on_update(field, scoreboard, dt) :
        /\ WithinBounds(r.field)
        /\ SetField(r.field)
        /\ scoreboard' = r.scoreboard
        /\ status' = r.status
        /\ UNCHANGED <<call, process>>

OnUpdate == \E dt \in Dts : Tick(dt)

Pressed(key) ==
    /\ SetField(Field_on_button_pressed(field, key))
    /\ status' = "none"
    /\ UNCHANGED <<call, scoreboard, process>>

OnButtonPressed == \E key \in Keys : Pressed(key)

Released(key) ==
    /\ SetField(Field_on_button_released(field, key))
    /\ status' = "none"
    /\ UNCHANGED <<call, scoreboard, process>>

OnButtonReleased == \E key \in Keys : Released(key)

Resized(size) ==
    /\ SetField(Field_on_resize(field, size[1], size[2]))
    /\ scoreboard' = Scoreboard_on_resize(scoreboard, size[1], SCOREBOARD_HEIGHT)
    /\ status' = "none"
    /\ UNCHANGED <<call, process>>

OnResize == \E size \in FieldSizes : Resized(size)

\* Application::on_render draws the field and the scoreboard, and changes neither.
OnRender ==
    /\ status' = "none"
    /\ UNCHANGED <<ball, last_speed_change, players, height, width, call, scoreboard, process>>

Next == OnUpdate \/ OnButtonPressed \/ OnButtonReleased \/ OnResize \/ OnRender

Spec == Init /\ [][Next]_vars

(***************************************************************************)
(* Unit specification of the ball: Ball::update and Ball::collide_with     *)
(* called on any ball, with any obstacle boxes, as the tests of ball.rs do.*)
(***************************************************************************)
\* Window sizes [width, height]; the second is just as high as the ball.
TestSizes == { <<100, 100>>, <<120, 10>> }
\* Starting positions; y = 95 and y = 110 reach below a window of height 100, as
\* the ball of a field does once the field was made lower.
TestXs == {5, 10, 20, 45, 65, 90, 95}
TestYs == {0, 5, 40, 45, 95, 110}
TestSpeeds == {-100, 100}
\* Tick lengths: 0.1 s, 0.2 s and 0.5 s.
TestDts == {1, 2, 5}
\* The boxes of the tests of ball.rs, one lying on the left border, and the
\* handles of the left and of the right player where Player::new puts them in a
\* field 100 wide.
BoxA == <<45, 45, 55, 55>>
BoxB == <<75, 75, 85, 85>>
BoxL == <<0, 35, 10, 65>>
BoxP == <<10, 0, 20, 60>>
BoxQ == <<80, 0, 90, 60>>
TestObstacles == { <<>>, <<BoxA>>, <<BoxB>>, <<BoxL>>, <<BoxP>>, <<BoxA, BoxB>>, <<BoxL, BoxL>>,
                   <<BoxP, BoxQ>> }
\* Tentative positions handed to collide_with: around and inside BoxB.
TestNext == {25, 60, 65, 70, 75, 80, 85, 90}

InitBall ==
    \E size \in TestSizes : \E x \in TestXs, y \in TestYs, sx \in TestSpeeds, sy \in TestSpeeds :
        /\ SetFieldInit(Field_new(size, [diameter |-> 10, position |-> <<x, y>>, speed |-> <<sx, sy>>]))
        /\ status = "none"
        /\ call = NoCall
        /\ scoreboard = Scoreboard_new
        /\ process = Running

\* ball.update(dt, width, height, objects), any number of times in a row.
BallUpdate ==
    \E dt \in TestDts : \E objects \in TestObstacles :
        LET r == Ball_update(ball, dt, width, height, objects)
        IN  /\ call.op # "Ball.collide_with"
            /\ ball' = r.ball
            /\ status' = r.status
            /\ call' = [op |-> "Ball.update", ball |-> ball, dt |-> dt, obstacles |-> objects]
            /\ UNCHANGED <<last_speed_change, players, height, width, scoreboard, process>>

\* ball.collide_with(next_position, object), once, on a ball not yet updated.
BallCollideWith ==
    \E x \in TestNext, y \in TestNext : \E object \in {BoxA, BoxB} :
        /\ call = NoCall
        /\ ball' = collide_with(ball, <<x, y>>, object)
        /\ status' = "none"
        /\ call' = [op |-> "Ball.collide_with", ball |-> ball, next_position |-> <<x, y>>,
                     object |-> object]
        /\ UNCHANGED <<last_speed_change, players, height, width, scoreboard, process>>

NextBall == BallUpdate \/ BallCollideWith

SpecBall == InitBall /\ [][NextBall]_vars

(***************************************************************************)
(* Unit specification of the player: Player::update called on the left     *)
(* player put at any position, as the quickcheck test of player.rs does.   *)
(***************************************************************************)
\* Field heights; the first is lower than the handle.
PlayerHeights == {40, 60, 100}
PlayerXs == {0, 10}
PlayerYs == {0, 10, 25, 40, 70}
PlayerSpeeds == {SPEED, SPEED + SPEED_CHANGE}
\* Tick lengths, from none to 1 s.
PlayerDts == {0, 1, 2, 10}

InitPlayer ==
    \E h \in PlayerHeights : \E x \in PlayerXs, y \in PlayerYs, speed \in PlayerSpeeds :
        \E b \in Ball_new(<<100, h>>) :
            LET f == Field_new(<<100, h>>, b)
            IN  /\ b.speed = <<100, 100>>
                /\ SetFieldInit([f EXCEPT !.players[1].position = <<x, y>>,
                                          !.players[1].speed = speed])
                /\ status = "none"
                /\ call = NoCall
                /\ scoreboard = Scoreboard_new
                /\ process = Running

\* player.set_movement(movement)
PlayerSetMovement ==
    \E movement \in Movement :
        /\ players' = [players EXCEPT ![1] = set_movement(players[1], movement)]
        /\ call' = [op |-> "Player.set_movement", player |-> players[1], dt |-> 0]
        /\ UNCHANGED <<ball, last_speed_change, height, width, status, scoreboard, process>>

\* player.update(dt, height)
PlayerUpdate ==
    \E dt \in PlayerDts :
        /\ players' = [players EXCEPT ![1] = Player_update(players[1], dt, height)]
        /\ call' = [op |-> "Player.update", player |-> players[1], dt |-> dt]
        /\ UNCHANGED <<ball, last_speed_change, height, width, status, scoreboard, process>>

\* player.get_bounding_box()
PlayerGetBoundingBox ==
    /\ call' = [op |-> "Player.get_bounding_box", player |-> players[1], dt |-> 0,
                 result |-> get_bounding_box(players[1])]
    /\ UNCHANGED <<ball, last_speed_change, players, height, width, status, scoreboard, process>>

NextPlayer == PlayerSetMovement \/ PlayerUpdate \/ PlayerGetBoundingBox

SpecPlayer == InitPlayer /\ [][NextPlayer]_vars

(***************************************************************************)
(* The held paddle: the player of the unit specification above, updated    *)
(* again and again with ticks of 0.1 s or 0.2 s, as the event loop does    *)
(* while the window is open, its movement set at any time in between.      *)
(***************************************************************************)
HeldDts == {1, 2}

\* player.update(dt, height) with dt > 0
HeldUpdate ==
    \E dt \in HeldDts :
        /\ players' = [players EXCEPT ![1] = Player_update(players[1], dt, height)]
        /\ call' = [op |-> "Player.update", player |-> players[1], dt |-> dt]
        /\ UNCHANGED <<ball, last_speed_change, height, width, status, scoreboard, process>>

NextHeld == PlayerSetMovement \/ HeldUpdate

\* The loop keeps delivering update events.
SpecHeld == InitPlayer /\ [][NextHeld]_vars /\ WF_vars(HeldUpdate)

(***************************************************************************)
(* Unit specification of the score: Player::update_score called once on a  *)
(* player with any score and speed, as the quickcheck test of player.rs    *)
(* does, with any number of additional points.                             *)
(***************************************************************************)
\* Every value of the machine integer.
Isize == IsizeMin..IsizeMax
ScoreYs == {0, 25}

InitScore ==
    \E i \in 1..2 : \E score \in Isize, speed \in PlayerSpeeds, movement \in Movement, y \in ScoreYs :
        \E b \in Ball_new(<<100, 100>>) :
            LET f == Field_new(<<100, 100>>, b)
            IN  /\ b.speed = <<100, 100>>
                /\ SetFieldInit([f EXCEPT !.players[i].score = score,
                                          !.players[i].speed = speed,
                                          !.players[i].movement = movement,
                                          !.players[i].position[2] = y])
                /\ status = "none"
                /\ call = NoCall
                /\ scoreboard = Scoreboard_new
                /\ process = Running

\* players[i].update_score(additional_points)
PlayerUpdateScore ==
    \E i \in 1..2 : \E additional_points \in Isize :
        /\ call = NoCall
        /\ players' = [players EXCEPT ![i] = update_score(players[i], additional_points)]
        /\ call' = [op |-> "Player.update_score", index |-> i, player |-> players[i],
                     additional_points |-> additional_points]
        /\ UNCHANGED <<ball, last_speed_change, height, width, status, scoreboard, process>>

NextScore == PlayerUpdateScore

SpecScore == InitScore /\ [][NextScore]_vars

(***************************************************************************)
(* Unit specification of the tick: Field::on_update called once on a field *)
(* in the middle of a game, with ticks short enough to show which speed a  *)
(* move was made with.                                                     *)
(***************************************************************************)
UpdateSize == <<400, 200>>
\* Accumulated time: none, 9.0 s and 9.5 s.
UpdateAccumulated == {0, 90, 95}
\* Tick lengths: 0.5 s, 1 s and 25 s.
UpdateDts == {5, 10, 250}
UpdatePlayerYs == {0, 50}
\* The ball next to the left border, one tick of 0.5 s away from it, and at the centre.
UpdateBallXs == {5, 50, 195}
UpdateBallSpeeds == { <<-100, 100>>, <<100, -100>> }

InitUpdate ==
    \E t \in UpdateAccumulated, y \in UpdatePlayerYs, speed \in PlayerSpeeds :
        \E m1 \in Movement, m2 \in Movement : \E x \in UpdateBallXs, bs \in UpdateBallSpeeds :
            LET f == Field_new(UpdateSize, [diameter |-> 10, position |-> <<x, 95>>, speed |-> bs])
            IN  /\ SetFieldInit([f EXCEPT !.last_speed_change = t,
                                          !.players[1].position[2] = y,
                                          !.players[2].position[2] = y,
                                          !.players[1].speed = speed,
                                          !.players[2].speed = speed,
                                          !.players[1].movement = m1,
                                          !.players[2].movement = m2])
                /\ status = "none"
                /\ call = NoCall
                /\ scoreboard = Scoreboard_new
                /\ process = Running

\* field.on_update(dt)
FieldOnUpdate ==
    \E dt \in UpdateDts : \E r \in Field_on_update(field, dt) :
        /\ call = NoCall
        /\ SetField(r.field)
        /\ status' = r.status
        /\ call' = [op |-> "Field.on_update", dt |-> dt, field |-> field]
        /\ UNCHANGED <<scoreboard, process>>

NextUpdate == FieldOnUpdate

SpecUpdate == InitUpdate /\ [][NextUpdate]_vars

(***************************************************************************)
(* Unit specification of the input: Field::on_button_pressed and           *)
(* Field::on_button_released driven by a keyboard and a mouse.  A button   *)
(* is released only while it is held; a held button can repeat its press.  *)
(* call keeps the last event, the buttons held after it, for each side the *)
(* key of that side pressed last, and the field before the event.          *)
(***************************************************************************)
\* The keys and one button that is not a key.
Buttons == Keys \cup {"MouseLeft"}

InitKeys ==
    \E size \in FieldSizes : \E b \in Ball_new(size) :
        /\ b.speed = <<100, 100>>
        /\ SetFieldInit(Field_new(size, b))
        /\ status = "none"
        /\ call = [op |-> "none", key |-> "none", held |-> {}, last_pressed |-> <<"none", "none">>,
                   field |-> Field_new(size, b)]
        /\ scoreboard = Scoreboard_new
        /\ process = Running

\* field.on_button_pressed(button)
ButtonPressed ==
    \E button \in Buttons :
        /\ SetField(Field_on_button_pressed(field, button))
        /\ status' = "none"
        /\ call' = [op |-> "Field.on_button_pressed", key |-> button,
                     held |-> call.held \cup {button},
                     last_pressed |-> << IF button \in {"W", "S"} THEN button ELSE call.last_pressed[1],
                                         IF button \in {"Up", "Down"} THEN button ELSE call.last_pressed[2] >>,
                     field |-> field]
        /\ UNCHANGED <<scoreboard, process>>

\* field.on_button_released(button)
ButtonReleased ==
    \E button \in call.held :
        /\ SetField(Field_on_button_released(field, button))
        /\ status' = "none"
        /\ call' = [op |-> "Field.on_button_released", key |-> button,
                     held |-> call.held \ {button},
                     last_pressed |-> call.last_pressed,
                     field |-> field]
        /\ UNCHANGED <<scoreboard, process>>

NextKeys == ButtonPressed \/ ButtonReleased

SpecKeys == InitKeys /\ [][NextKeys]_vars

(***************************************************************************)
(* Unit specification of the new ball: Ball::new called for any window,    *)
(* as the quickcheck test of ball.rs does, windows smaller than the ball   *)
(* included.                                                               *)
(***************************************************************************)
\* Widths and heights of the window.
NewSizes == {0, 4, 10, 20, 100}

InitNew ==
    \E b \in Ball_new(<<100, 100>>) :
        /\ SetFieldInit(Field_new(<<100, 100>>, b))
        /\ status = "none"
        /\ call = NoCall
        /\ scoreboard = Scoreboard_new
        /\ process = Running

\* Ball::new([w, h])
BallNew ==
    \E w \in NewSizes, h \in NewSizes : \E b \in Ball_new(<<w, h>>) :
        /\ ball' = b
        /\ call' = [op |-> "Ball.new", window_size |-> <<w, h>>]
        /\ UNCHANGED <<last_speed_change, players, height, width, status, scoreboard, process>>

\* Field::new([w, h])
FieldNew ==
    \E w \in NewSizes, h \in NewSizes : \E b \in Ball_new(<<w, h>>) :
        /\ SetField(Field_new(<<w, h>>, b))
        /\ call' = [op |-> "Field.new", window_size |-> <<w, h>>]
        /\ UNCHANGED <<status, scoreboard, process>>

NextNew == BallNew \/ FieldNew

SpecNew == InitNew /\ [][NextNew]_vars

(***************************************************************************)
(* The process: main makes the application, runs it and exits.  Before     *)
(* Application::new has returned there is no field and no scoreboard; call *)
(* keeps what the last of Application::new and Application::run returned.  *)
(***************************************************************************)
NoField == [ball |-> <<>>, last_speed_change |-> 0, players |-> <<>>, height |-> 0, width |-> 0]
NoScoreboard == <<>>

InitMain ==
    /\ SetFieldInit(NoField)
    /\ scoreboard = NoScoreboard
    /\ status = "none"
    /\ call = NoCall
    /\ process = [pc |-> "main", stdout |-> <<>>]

\* main up to the call of run: Application::new and the match on its result.
MainNew ==
    /\ process.pc = "main"
    /\ \E window \in WindowResults, assets \in AssetsResults :
          \E r \in Application_new(window, assets) :
              /\ call' = [op |-> "Application.new", result |-> r]
              /\ IF r.ok
                    THEN /\ SetField(r.field)
                         /\ scoreboard' = r.scoreboard
                         /\ process' = [process EXCEPT !.pc = "run"]
                    ELSE /\ process' = fail_from_error(process, r.error)
                         /\ UNCHANGED <<ball, last_speed_change, players, height, width, scoreboard>>
              /\ UNCHANGED status

\* One event of the loop of Application::run; the window Application::new builds
\* is not resizable, so no resize event comes.
MainRun ==
    /\ process.pc = "run"
    /\ (OnUpdate \/ OnButtonPressed \/ OnButtonReleased \/ OnRender)

\* The window has no next event: run returns and main calls exit::succeed.
MainSucceed ==
    /\ process.pc = "run"
    /\ process' = succeed(process)
    /\ call' = [op |-> "Application.run"]
    /\ UNCHANGED <<ball, last_speed_change, players, height, width, status, scoreboard>>

NextMain == MainNew \/ MainRun \/ MainSucceed

SpecMain == InitMain /\ [][NextMain]_vars

(***************************************************************************)
(* Properties of the game (specification Spec).                            *)
(***************************************************************************)
Exited == {"LeftOnLeftSide", "LeftOnRightSide"}

\* C1: in every tick, WithinGame changes no score and keeps the ball Ball::update
\* left; LeftOnLeftSide adds exactly 1 to the right player's score and leaves the
\* left player's; LeftOnRightSide adds exactly 1 to the left player's score and
\* leaves the right player's.
C1_ScoreMapping ==
    [][ status' # "none" =>
          LET old == get_player_scores(field)
              new == << players'[1].score, players'[2].score >>
          IN  /\ status' = "WithinGame" =>
                    new = old /\ \E dt \in Dts : ball' = updated_ball(field, dt)
              /\ status' = "LeftOnLeftSide" => new = << old[1], old[2] + 1 >>
              /\ status' = "LeftOnRightSide" => new = << old[1] + 1, old[2] >> ]_vars

\* A tick has reported the ball as left on the left side and the right player scored.
C1_Witness ==
    /\ status = "LeftOnLeftSide"
    /\ get_player_scores(field) = <<0, 1>>

\* C2: in every tick that reports the ball as exited, the ball held afterwards is
\* one Ball::new returns for the current field, at the centre
\* (width/2 - 5, height/2 - 5); in a tick that returns WithinGame the ball is the
\* one Ball::update left, not a new one.
C2_FreshBall ==
    [][ status' # "none" =>
          /\ status' \in Exited =>
                /\ ball' \in Ball_new(<<width', height'>>)
                /\ ball'.position = << width' \div 2 - 5, height' \div 2 - 5 >>
          /\ status' = "WithinGame" => \E dt \in Dts : ball' = updated_ball(field, dt) ]_vars

\* A tick has reported an exit on the right and the ball is back at the centre.
C2_Witness ==
    /\ status = "LeftOnRightSide"
    /\ players[1].score = 1
    /\ ball.position = << width \div 2 - 5, height \div 2 - 5 >>

\* C10: in every reachable state of the game each paddle satisfies
\* 0 <= position.y <= height - size.height for the current height.
C10_PaddleInvariant ==
    \A i \in 1..2 :
        /\ 0 <= players[i].position[2]
        /\ players[i].position[2] <= height - players[i].size[2]

(***************************************************************************)
(* Properties of Ball::update and Ball::collide_with (specification        *)
(* SpecBall).  call.ball is the ball on entry to the call, ball the ball   *)
(* it leaves.                                                              *)
(***************************************************************************)
\* The tentative position of the call: position + speed * dt, speed as on entry.
Tentative ==
    << call.ball.position[1] + Mul(call.ball.speed[1], call.dt),
       call.ball.position[2] + Mul(call.ball.speed[2], call.dt) >>

\* The two tests of the collision rule, for a ball of diameter d at (p[1], p[2]).
FlipsVertical(p, d, box) ==
    /\ box[1] <= p[1] + d \div 2
    /\ p[1] + d \div 2 <= box[3]
    /\ p[2] + d >= box[2]
    /\ p[2] <= box[4]

FlipsHorizontal(p, d, box) ==
    /\ box[2] <= p[2] + d \div 2
    /\ p[2] + d \div 2 <= box[4]
    /\ p[1] + d >= box[1]
    /\ p[1] <= box[3]

\* How many boxes of the call reverse the vertical (horizontal) speed.
VerticalHits ==
    Cardinality({ i \in 1..Len(call.obstacles) :
                    FlipsVertical(Tentative, call.ball.diameter, call.obstacles[i]) })

HorizontalHits ==
    Cardinality({ i \in 1..Len(call.obstacles) :
                    FlipsHorizontal(Tentative, call.ball.diameter, call.obstacles[i]) })

\* v reversed n times.
Reversed(v, n) == IF n % 2 = 1 THEN -v ELSE v

\* The tentative position crosses the top or the bottom of the window.
CrossesWall ==
    \/ Tentative[2] < 0
    \/ Tentative[2] + call.ball.diameter > height

\* y put back into [0, h - d], the top first.
Contained(y, d, h) == IF y < 0 THEN 0 ELSE IF y + d > h THEN h - d ELSE y

\* C3: for a window at least as high as the ball, after Ball::update returns
\* WithinGame the ball satisfies 0 <= position.y <= height - diameter, whatever dt,
\* obstacles and starting position (also one outside the window).
C3_Containment ==
    (call.op = "Ball.update" /\ status = "WithinGame" /\ height >= ball.diameter) =>
        /\ 0 <= ball.position[2]
        /\ ball.position[2] <= height - ball.diameter

\* A ball that started below the window has been put back onto its bottom.
C3_Witness ==
    /\ call.op = "Ball.update"
    /\ status = "WithinGame"
    /\ call.ball.position[2] > height
    /\ ball.position[2] = height - ball.diameter

\* C4: Ball::update returns LeftOnLeftSide exactly when position.x + speed.x*dt < 0
\* (speed as on entry), otherwise LeftOnRightSide exactly when
\* position.x + diameter + speed.x*dt > width, otherwise WithinGame; on an exit the
\* position is the one before the call.
C4_ExitDetection ==
    call.op = "Ball.update" =>
        /\ status = IF Tentative[1] < 0 THEN "LeftOnLeftSide"
                    ELSE IF Tentative[1] + call.ball.diameter > width THEN "LeftOnRightSide"
                    ELSE "WithinGame"
        /\ status \in Exited => ball.position = call.ball.position

\* The ball of the test update_leave_on_left has left on the left.
C4_Witness ==
    /\ call.op = "Ball.update"
    /\ call.ball.position = <<5, 45>>
    /\ call.ball.speed[1] = -100
    /\ call.dt = 1
    /\ status = "LeftOnLeftSide"
    /\ ball.position = <<5, 45>>

\* C5 as stated: whenever Ball::update returns an exit status, for any obstacle
\* boxes, the speed and the position are those before the call.
C5_NoMutationOnExit ==
    (call.op = "Ball.update" /\ status \in Exited) =>
        /\ ball.speed = call.ball.speed
        /\ ball.position = call.ball.position

\* C5 as amended: whenever Ball::update returns an exit status the position is the
\* one before the call, and each speed component is the one before the call
\* reversed once for every obstacle box hit at the tentative position (so the speed
\* is unchanged when no box is hit).
C5_ExitKeepsPosition ==
    (call.op = "Ball.update" /\ status \in Exited) =>
        /\ ball.position = call.ball.position
        /\ ball.speed = << Reversed(call.ball.speed[1], HorizontalHits),
                           Reversed(call.ball.speed[2], VerticalHits) >>

\* A ball has left with its horizontal speed reversed by a box on the border.
C5_Witness ==
    /\ call.op = "Ball.update"
    /\ status \in Exited
    /\ HorizontalHits = 1
    /\ ball.speed[1] = -call.ball.speed[1]
    /\ ball.position = call.ball.position

\* C6: collide_with reverses the vertical speed exactly when
\* left <= x + r <= right, y + d >= top and y <= bottom, and the horizontal speed
\* exactly when top <= y + r <= bottom, x + d >= left and x <= right, each test on
\* its own; nothing else of the ball changes.
C6_CollisionRule ==
    call.op = "Ball.collide_with" =>
        LET d == call.ball.diameter
            p == call.next_position
        IN  /\ ball.speed[2] = IF FlipsVertical(p, d, call.object)
                                THEN -call.ball.speed[2] ELSE call.ball.speed[2]
            /\ ball.speed[1] = IF FlipsHorizontal(p, d, call.object)
                                THEN -call.ball.speed[1] ELSE call.ball.speed[1]
            /\ ball.position = call.ball.position
            /\ ball.diameter = d

\* Both tests held for one box and both components are reversed.
C6_Witness ==
    /\ call.op = "Ball.collide_with"
    /\ FlipsVertical(call.next_position, call.ball.diameter, call.object)
    /\ FlipsHorizontal(call.next_position, call.ball.diameter, call.object)
    /\ ball.speed = << -call.ball.speed[1], -call.ball.speed[2] >>

\* The speed a call of Ball::update is to leave: reversed by the boxes hit at the
\* tentative position and, unless the ball exits, by the wall.
SpeedAfterFlips ==
    << Reversed(call.ball.speed[1], HorizontalHits),
       Reversed(call.ball.speed[2],
                VerticalHits + IF status = "WithinGame" /\ CrossesWall THEN 1 ELSE 0) >>

\* C7 as stated: the collision test uses the tentative position of the speed on
\* entry and runs before the exit tests; when the call returns WithinGame the
\* ball is at its old position plus (speed after all flips) * dt.
C7_MovedBySpeed ==
    call.op = "Ball.update" =>
        /\ ball.speed = SpeedAfterFlips
        /\ status = "WithinGame" =>
              ball.position = << call.ball.position[1] + Mul(ball.speed[1], call.dt),
                                 call.ball.position[2] + Mul(ball.speed[2], call.dt) >>

\* C7 as amended: as stated, but the vertical position is then put back into
\* [0, height - diameter]: x is the old x plus speed.x * dt, y is the old y plus
\* speed.y * dt contained in the window (speed after all flips of the call).
C7_MovedThenContained ==
    call.op = "Ball.update" =>
        /\ ball.speed = SpeedAfterFlips
        /\ status = "WithinGame" =>
              ball.position = << call.ball.position[1] + Mul(ball.speed[1], call.dt),
                                 Contained(call.ball.position[2] + Mul(ball.speed[2], call.dt),
                                           ball.diameter, height) >>

\* The test update_collide: the ball reflected by the box moves away in the same call.
C7_Witness ==
    /\ call = [op |-> "Ball.update", dt |-> 1, obstacles |-> <<BoxA>>,
                ball |-> [diameter |-> 10, position |-> <<65, 40>>, speed |-> <<-100, 100>>]]
    /\ width = 100 /\ height = 100
    /\ status = "WithinGame"
    /\ ball.speed = <<100, 100>>
    /\ ball.position = <<75, 50>>

\* C8 as stated: in a call that neither exits nor hits a box, the vertical speed
\* is reversed exactly when position.y + speed.y*dt < 0 or
\* position.y + diameter + speed.y*dt > height, the ball is at its old position plus
\* the speed so obtained times dt, and the horizontal speed is unchanged.
C8_WallBounce ==
    (call.op = "Ball.update" /\ status = "WithinGame" /\ VerticalHits = 0 /\ HorizontalHits = 0) =>
        /\ ball.speed[2] = IF CrossesWall THEN -call.ball.speed[2] ELSE call.ball.speed[2]
        /\ ball.speed[1] = call.ball.speed[1]
        /\ ball.position = << call.ball.position[1] + Mul(ball.speed[1], call.dt),
                              call.ball.position[2] + Mul(ball.speed[2], call.dt) >>

\* C8 as amended: as stated, but after the move the vertical position is put back
\* into [0, height - diameter].
C8_WallBounceContained ==
    (call.op = "Ball.update" /\ status = "WithinGame" /\ VerticalHits = 0 /\ HorizontalHits = 0) =>
        /\ ball.speed[2] = IF CrossesWall THEN -call.ball.speed[2] ELSE call.ball.speed[2]
        /\ ball.speed[1] = call.ball.speed[1]
        /\ ball.position = << call.ball.position[1] + Mul(ball.speed[1], call.dt),
                              Contained(call.ball.position[2] + Mul(ball.speed[2], call.dt),
                                        ball.diameter, height) >>

\* From y = 5 with speed -100 and dt 0.1 the ball ends at y = 15 with speed +100.
C8_Witness ==
    /\ call.op = "Ball.update"
    /\ call.obstacles = <<>>
    /\ call.ball.position[2] = 5 /\ call.ball.speed[2] = -100 /\ call.dt = 1
    /\ height = 100
    /\ status = "WithinGame"
    /\ ball.position[2] = 15 /\ ball.speed[2] = 100

(***************************************************************************)
(* Properties of Player::update (specification SpecPlayer).  call.player   *)
(* is the player on entry to the call, players[1] the player it leaves.    *)
(***************************************************************************)
\* C9: for dt >= 0, a start with position.y >= 0 and a height with
\* position.y + size.height <= height, Player::update leaves, with Up,
\* 0 <= position.y <= the old y; with Down, position.y >= the old y and
\* position.y + size.height <= height; with None the old position; position.x is
\* the old one in all three.
C9_PaddleClamping ==
    ( /\ call.op = "Player.update"
      /\ call.dt >= 0
      /\ call.player.position[2] >= 0
      /\ call.player.position[2] + call.player.size[2] <= height ) =>
        LET old == call.player.position
            new == players[1].position
        IN  /\ call.player.movement = "Up" => 0 <= new[2] /\ new[2] <= old[2]
            /\ call.player.movement = "Down" =>
                  new[2] >= old[2] /\ new[2] + players[1].size[2] <= height
            /\ call.player.movement = "None" => new = old
            /\ new[1] = old[1]

\* A handle moving down has been stopped at the bottom of the field.
C9_Witness ==
    /\ call.op = "Player.update"
    /\ call.player.movement = "Down"
    /\ call.player.position[2] >= 0
    /\ call.player.position[2] + call.player.size[2] < height
    /\ call.player.position[2] + Mul(call.player.speed, call.dt) + call.player.size[2] > height
    /\ players[1].position[2] = height - players[1].size[2]

(***************************************************************************)
(* Properties of Player::update_score (specification SpecScore).           *)
(* call.player is the player on entry to the call, players[call.index] the *)
(* player it leaves.                                                       *)
(***************************************************************************)
\* C11: for every score s and every delta d of the machine integer,
\* update_score(d) leaves s + d when that is representable, MAX when s + d is
\* above MAX and MIN when it is below MIN; it never wraps.
C11_ScoreSaturation ==
    call.op = "Player.update_score" =>
        LET s == call.player.score
            d == call.additional_points
            new == players[call.index].score
        IN  /\ s + d \in Isize => new = s + d
            /\ s + d > IsizeMax => new = IsizeMax
            /\ s + d < IsizeMin => new = IsizeMin

\* A score just below MAX has been stopped at MAX by a delta of 2.
C11_Witness ==
    /\ call.op = "Player.update_score"
    /\ call.player.score = IsizeMax - 1
    /\ call.additional_points = 2
    /\ players[call.index].score = IsizeMax

C13_SpeedReset ==
    call.op = "Player.update_score" =>
        LET old == call.player
            new == players[call.index]
        IN  /\ new.speed = SPEED
            /\ new.position = old.position
            /\ new.movement = old.movement
            /\ new.field_side = old.field_side

\* A moving right player that had been sped up is back at 150 after a negative
\* delta that overflowed.
C13_Witness ==
    /\ call.op = "Player.update_score"
    /\ call.index = 2
    /\ call.player.speed = SPEED + SPEED_CHANGE
    /\ call.player.movement = "Down"
    /\ call.additional_points < 0
    /\ call.player.score + call.additional_points < IsizeMin
    /\ players[2].speed = SPEED
    /\ players[2].movement = "Down"

(***************************************************************************)
(* Properties of Field::on_update (specification SpecUpdate).  call.field  *)
(* is the field on entry to the call, call.dt its tick length.             *)
(***************************************************************************)
\* The accumulator plus dt has reached 10.0 s (100 tenths of a second).
Fired == call.field.last_speed_change + call.dt >= 100

\* Player i scored in the call.
Scored(i) ==
    \/ i = 1 /\ status = "LeftOnRightSide"
    \/ i = 2 /\ status = "LeftOnLeftSide"

Abs(n) == IF n < 0 THEN -n ELSE n

\* C14: on_update first adds dt to last_speed_change; if the sum is >= 10.0 the
\* accumulator is reset to 0 and the speed of each paddle grows by exactly 10
\* before the paddles are moved in that tick; if the sum is < 10.0 the sum is kept
\* and this step changes no paddle speed.  (A paddle that scores in the tick is
\* put back to 150 by the later scoring step.)
C14_PaddleSpeedUp ==
    call.op = "Field.on_update" =>
        LET old == call.field
            sum == old.last_speed_change + call.dt
            inc == IF sum >= 100 THEN 10 ELSE 0
        IN  /\ last_speed_change = IF sum >= 100 THEN 0 ELSE sum
            /\ \A i \in 1..2 :
                  LET speed == old.players[i].speed + inc
                      y == old.players[i].position[2]
                      lowest == height - old.players[i].size[2]
                      down == IF y + Mul(speed, call.dt) > lowest THEN lowest
                              ELSE y + Mul(speed, call.dt)
                      up == IF y - Mul(speed, call.dt) < 0 THEN 0 ELSE y - Mul(speed, call.dt)
                  IN  /\ players[i].speed = IF Scored(i) THEN 150 ELSE speed
                      /\ players[i].position[2] =
                            CASE old.players[i].movement = "Down" -> down
                              [] old.players[i].movement = "Up" -> up
                              [] OTHER -> y

\* The tick that brought the accumulator from 9.5 s to exactly 10.0 s has sped the
\* left paddle up from 150 to 160 and moved it down by 160 * 0.5 = 80.
C14_Witness ==
    /\ call.op = "Field.on_update"
    /\ call.field.last_speed_change = 95 /\ call.dt = 5
    /\ call.field.players[1].speed = 150
    /\ call.field.players[1].movement = "Down"
    /\ call.field.players[1].position[2] = 0
    /\ last_speed_change = 0
    /\ players[1].speed = 160
    /\ players[1].position[2] = 80

\* C15: in the tick in which the accumulator reaches 10.0 s the ball's speed grows
\* by exactly 10 on each axis, before the ball is moved in that tick: the exit on
\* the left is tested with the speed so grown, and a ball that stays within the
\* game has moved horizontally by its grown speed times dt.
C15_BallSpeedUp ==
    (call.op = "Field.on_update" /\ Fired) =>
        LET old == call.field.ball
            grown == IF old.speed[1] < 0 THEN old.speed[1] - 10 ELSE old.speed[1] + 10
        IN  /\ status = "LeftOnLeftSide" <=> old.position[1] + Mul(grown, call.dt) < 0
            /\ status = "WithinGame" =>
                  /\ Abs(ball.speed[1]) = Abs(old.speed[1]) + 10
                  /\ Abs(ball.speed[2]) = Abs(old.speed[2]) + 10
                  /\ ball.position[1] = old.position[1] + Mul(ball.speed[1], call.dt)

\* The ball at the centre, moving left at 100, has moved by 110 * 0.5 = 55 in the
\* tick that sped it up.
C15_Witness ==
    /\ call.op = "Field.on_update"
    /\ Fired
    /\ call.dt = 5
    /\ call.field.ball.position[1] = 195
    /\ call.field.ball.speed[1] = -100
    /\ status = "WithinGame"
    /\ ball.speed[1] = -110
    /\ ball.position[1] = 140

(***************************************************************************)
(* Properties of the input, of the resize and of the sides.                *)
(***************************************************************************)
\* The keys addressed to player i.
SideKeys(i) == IF i = 1 THEN {"W", "S"} ELSE {"Up", "Down"}

\* The movement the press of a key asks for.
MovementOf(key) == IF key \in {"W", "Up"} THEN "Up" ELSE "Down"

\* C16: pressing W sets paddle 0's movement to Up, S to Down, Up sets paddle 1's
\* movement to Up, Down to Down; releasing either key of a paddle sets its movement
\* to None; and no other step of the game (tick, resize, other key) changes a
\* paddle's movement, so that it always is what the last key event addressed to
\* its side has set.
C16_InputRouting ==
    [][ /\ \A i \in 1..2 : \A key \in SideKeys(i) :
              /\ Pressed(key) => players'[i].movement = MovementOf(key)
              /\ Released(key) => players'[i].movement = "None"
        /\ \A i \in 1..2 :
              players'[i].movement # players[i].movement =>
                  \E key \in SideKeys(i) : Pressed(key) \/ Released(key) ]_vars

\* The left paddle has been sent up and the right one down, and a tick has passed.
C16_Witness ==
    /\ players[1].movement = "Up"
    /\ players[2].movement = "Down"
    /\ status = "WithinGame"

\* C17: if the movement of a paddle was set by pressing a key that is still held,
\* releasing the paddle's other key leaves the movement; releasing the key that
\* set it gives None.
C17_HeldKeyKeepsMoving ==
    call.op = "Field.on_button_released" =>
        \A i \in 1..2 :
            LET active == call.last_pressed[i]
                before == call.field.players[i].movement
            IN  (/\ call.key \in SideKeys(i)
                 /\ active \in SideKeys(i)
                 /\ before = MovementOf(active)) =>
                    /\ (call.key # active /\ active \in call.held) => players[i].movement = before
                    /\ call.key = active => players[i].movement = "None"

\* C18: a press or a release of a button that is none of W, S, Up and Down, a
\* mouse button included, leaves the whole field as it was.
C18_OtherInputIgnored ==
    (call.op # "none" /\ call.key \notin {"W", "S", "Up", "Down"}) => field = call.field

\* The mouse button was released while both paddles were moving, and they still move.
C18_Witness ==
    /\ call.op = "Field.on_button_released"
    /\ call.key = "MouseLeft"
    /\ players[1].movement = "Up"
    /\ players[2].movement = "Down"

\* C19: on_resize(w, h) sets the width to w and the height to h and each paddle's
\* x to the value of its side (left: 10, right: w - 10 - 10); it leaves every
\* paddle's y, movement, speed and score, the ball and the accumulator.
C19_ResizeFrame ==
    [][ \A size \in FieldSizes :
          Resized(size) =>
              /\ width' = size[1]
              /\ height' = size[2]
              /\ players'[1].position[1] = 10
              /\ players'[2].position[1] = size[1] - 10 - 10
              /\ \A i \in 1..2 :
                    /\ players'[i].position[2] = players[i].position[2]
                    /\ players'[i].movement = players[i].movement
                    /\ players'[i].speed = players[i].speed
                    /\ players'[i].score = players[i].score
              /\ ball' = ball
              /\ last_speed_change' = last_speed_change ]_vars

\* The field was made wider and lower half-way to a speed-up: the right paddle is
\* at its new x and the left paddle still at the y it had reached in the higher field.
C19_Witness ==
    /\ status = "none"
    /\ width = 1040 /\ height = 80
    /\ players[2].position[1] = 1020
    /\ players[1].position[2] = 60
    /\ players[1].movement = "Down"
    /\ last_speed_change = 50

\* C20: in every reachable state of the game paddle 0 is the left player at x = 10
\* and paddle 1 the right player at x = width - 20, for the current width.
C20_Sides ==
    /\ players[1].field_side = "Left"
    /\ players[1].position[1] = 10
    /\ players[2].field_side = "Right"
    /\ players[2].position[1] = width - 20

\* After a point for each side and a resize from the narrow to the wide field the
\* right paddle is at the x of the wide field.
C20_Witness ==
    /\ players[1].score = 1
    /\ players[2].score = 1
    /\ width = 1040
    /\ height = 80
    /\ players[1].position[2] = 60
    /\ players[2].position[1] = 1020

(***************************************************************************)
(* More properties of Field::on_update (specification SpecUpdate).         *)
(***************************************************************************)
\* The speed of the ball on entry to the call, grown if the speed-up fires.
GrownBallSpeed ==
    LET v == call.field.ball.speed
        inc == IF Fired THEN 10 ELSE 0
    IN  << IF v[1] < 0 THEN v[1] - inc ELSE v[1] + inc,
           IF v[2] < 0 THEN v[2] - inc ELSE v[2] + inc >>

\* The tentative position of the ball in the call.
TickTentative ==
    << call.field.ball.position[1] + Mul(GrownBallSpeed[1], call.dt),
       call.field.ball.position[2] + Mul(GrownBallSpeed[2], call.dt) >>

\* The box of player i where the call has left the player.
BoxAfter(i) ==
    << players[i].position[1], players[i].position[2],
       players[i].position[1] + players[i].size[1], players[i].position[2] + players[i].size[2] >>

\* The y a player moving in direction m from y0 at the given speed reaches in the call.
MovedY(m, y0, speed, size_y) ==
    LET step == Mul(speed, call.dt)
    IN  CASE m = "Down" -> IF y0 + step + size_y > height THEN height - size_y ELSE y0 + step
          [] m = "Up"   -> IF y0 - step < 0 THEN 0 ELSE y0 - step
          [] OTHER      -> y0

\* C21: the order within one tick: first the accumulator and the speed-up, then
\* both paddles move (with the speed so grown), then the ball is updated against
\* the boxes of the paddles where this tick has moved them, then the scores are
\* updated from the status (the scorer's speed is back at 150 even in a tick that
\* sped it up) and, on an exit, the ball is replaced by a new one.
C21_TickOrder ==
    call.op = "Field.on_update" =>
        LET old == call.field
            inc == IF Fired THEN 10 ELSE 0
            hits == Cardinality({ i \in 1..2 : FlipsHorizontal(TickTentative, 10, BoxAfter(i)) })
        IN  /\ \A i \in 1..2 :
                  players[i].position[2] =
                      MovedY(old.players[i].movement, old.players[i].position[2],
                             old.players[i].speed + inc, old.players[i].size[2])
            /\ status = "WithinGame" =>
                  /\ ball.speed[1] = Reversed(GrownBallSpeed[1], hits)
                  /\ ball.position[1] = old.ball.position[1] + Mul(ball.speed[1], call.dt)
                  /\ get_player_scores(field) = get_player_scores(old)
            /\ status = "LeftOnLeftSide" =>
                  /\ get_player_scores(field) = << old.players[1].score, old.players[2].score + 1 >>
                  /\ players[2].speed = 150
                  /\ ball \in Ball_new(<<width, height>>)
            /\ status = "LeftOnRightSide" =>
                  /\ get_player_scores(field) = << old.players[1].score + 1, old.players[2].score >>
                  /\ players[1].speed = 150
                  /\ ball \in Ball_new(<<width, height>>)

\* The left paddle moved down from y = 50 to y = 125 in the tick, into the way of
\* the ball arriving at (0, 145), and the ball was sent back to the right.
C21_Witness ==
    /\ call.op = "Field.on_update"
    /\ call.dt = 5
    /\ ~Fired
    /\ call.field.players[1].position[2] = 50
    /\ call.field.players[1].movement = "Down"
    /\ call.field.ball.position = <<50, 95>>
    /\ call.field.ball.speed = <<-100, 100>>
    /\ players[1].position[2] = 125
    /\ status = "WithinGame"
    /\ ball.speed[1] = 100
    /\ ball.position[1] = 100

(***************************************************************************)
(* Properties of Ball::new (specification SpecNew).  call.window_size is   *)
(* the window of the call, ball the ball it returned.                      *)
(***************************************************************************)
\* C22: Ball::new([width, height]) yields diameter 10 and position
\* (max(0, width/2 - 5), max(0, height/2 - 5)); for width, height >= 10 the left
\* margin is the right margin and the top margin the bottom margin; each speed
\* component has an absolute value in [100, 150), and each of the four
\* combinations of signs is a ball the call can return.
C22_NewBall ==
    call.op = "Ball.new" =>
        LET w == call.window_size[1]
            h == call.window_size[2]
            cx == w \div 2 - 5
            cy == h \div 2 - 5
        IN  /\ ball.diameter = 10
            /\ ball.position = << IF cx > 0 THEN cx ELSE 0, IF cy > 0 THEN cy ELSE 0 >>
            /\ (w >= 10 /\ h >= 10) =>
                  /\ ball.position[1] = w - (ball.position[1] + ball.diameter)
                  /\ ball.position[2] = h - (ball.position[2] + ball.diameter)
            /\ \A i \in 1..2 : 100 <= Abs(ball.speed[i]) /\ Abs(ball.speed[i]) < 150
            /\ \A gx \in {-1, 1}, gy \in {-1, 1} :
                  \E b \in Ball_new(call.window_size) :
                      b.speed[1] * gx > 0 /\ b.speed[2] * gy > 0

\* A window narrower than the ball: the ball is at the left border, centred
\* vertically, going left and down.
C22_Witness ==
    /\ call.op = "Ball.new"
    /\ call.window_size = <<4, 100>>
    /\ ball.position = <<0, 45>>
    /\ ball.speed[1] < 0
    /\ ball.speed[2] > 0

(***************************************************************************)
(* More properties of Ball::update (specification SpecBall).               *)
(***************************************************************************)
\* The vertical centre of a ball at height y is within the y-span of the box.
CentreWithin(y, d, box) == box[2] <= y + d \div 2 /\ y + d \div 2 <= box[4]

\* C23: if the ball starts entirely on one horizontal side of an obstacle box and
\* its tentative position is entirely on the other side, with its vertical centre
\* within the box's y-span (before and after), the call reverses its horizontal
\* speed and does not leave it on the other side.
C23_NoTunnelling ==
    call.op = "Ball.update" =>
        \A k \in 1..Len(call.obstacles) :
            LET box == call.obstacles[k]
                old == call.ball
                d == old.diameter
                fromLeft == old.position[1] + d < box[1] /\ Tentative[1] > box[3]
                fromRight == old.position[1] > box[3] /\ Tentative[1] + d < box[1]
            IN  (/\ fromLeft \/ fromRight
                 /\ CentreWithin(old.position[2], d, box)
                 /\ CentreWithin(Tentative[2], d, box)) =>
                    /\ ball.speed[1] = -old.speed[1]
                    /\ fromLeft => ball.position[1] <= box[3]
                    /\ fromRight => ball.position[1] + d >= box[1]

\* C24: for a ball that starts the call with 0 <= position.x and
\* position.x + diameter <= width, if Ball::update returns WithinGame then
\* 0 <= position.x and position.x + diameter <= width hold after it.
C24_HorizontalBounds ==
    (/\ call.op = "Ball.update"
     /\ 0 <= call.ball.position[1]
     /\ call.ball.position[1] + call.ball.diameter <= width
     /\ status = "WithinGame") =>
        /\ 0 <= ball.position[1]
        /\ ball.position[1] + ball.diameter <= width

\* C25: Ball::update changes the speed by sign flips only: whatever dt, window,
\* obstacles and status, the absolute value of each component after the call is
\* the one before the call.
C25_Elastic ==
    call.op = "Ball.update" =>
        /\ Abs(ball.speed[1]) = Abs(call.ball.speed[1])
        /\ Abs(ball.speed[2]) = Abs(call.ball.speed[2])

\* A ball has been sent back by a box on both axes, each at the speed it came with.
C25_Witness ==
    /\ call.op = "Ball.update"
    /\ HorizontalHits = 1
    /\ VerticalHits = 1
    /\ ~CrossesWall
    /\ status = "WithinGame"
    /\ ball.speed = << -call.ball.speed[1], -call.ball.speed[2] >>

(***************************************************************************)
(* Ticks and key events (specification Spec).                              *)
(***************************************************************************)
\* The y a player at y0 reaches when it moves by step in direction m.
MovedBy(m, y0, step, size_y, h) ==
    CASE m = "Down" -> IF y0 + step + size_y > h THEN h - size_y ELSE y0 + step
      [] m = "Up"   -> IF y0 - step < 0 THEN 0 ELSE y0 - step
      [] OTHER      -> y0

\* C26: key events and ticks are steps of one loop: every tick moves each paddle
\* for the whole tick by the movement the paddle has when the tick starts (the one
\* the last key event of its side has set, C16), and leaves that movement.
C26_AtomicTicks ==
    [][ status' # "none" =>
          \E dt \in Dts :
              LET inc == IF last_speed_change + dt >= 100 THEN 10 ELSE 0
              IN  \A i \in 1..2 :
                      /\ players'[i].movement = players[i].movement
                      /\ players'[i].position[2] =
                            MovedBy(players[i].movement, players[i].position[2],
                                    Mul(players[i].speed + inc, dt), players[i].size[2], height) ]_vars

\* The left paddle was sent down and stopped by a release, the right paddle was
\* sent down then, and the tick after that moved the right paddle only.
C26_Witness ==
    /\ status = "WithinGame"
    /\ height = 120
    /\ players[1].movement = "None"
    /\ players[1].position[2] = 60
    /\ players[2].movement = "Down"
    /\ players[2].position[2] = 60

(***************************************************************************)
(* Properties of Field::new (specification SpecNew) and of                 *)
(* Player::get_bounding_box (specification SpecPlayer).                    *)
(***************************************************************************)
\* C28: Field::new([w, h]) stores width w and height h, has last_speed_change 0,
\* scores [0, 0] and two paddles with movement None, position.y 0, size 10 x 60
\* and speed 150, the left one at x = 10 and the right one at x = w - 20.
C28_InitialField ==
    call.op = "Field.new" =>
        /\ width = call.window_size[1]
        /\ height = call.window_size[2]
        /\ last_speed_change = 0
        /\ get_player_scores(field) = <<0, 0>>
        /\ \A i \in 1..2 :
              /\ players[i].movement = "None"
              /\ players[i].position[2] = 0
              /\ players[i].size = <<10, 60>>
              /\ players[i].speed = 150
        /\ players[1].position[1] = 10
        /\ players[2].position[1] = call.window_size[1] - 20

\* A field of 100 x 20 has been made: the right paddle is at x = 80.
C28_Witness ==
    /\ call.op = "Field.new"
    /\ call.window_size = <<100, 20>>
    /\ width = 100 /\ height = 20
    /\ players[2].position[1] = 80
    /\ ball.position = <<45, 5>>

\* C29: get_bounding_box returns [position.x, position.y, position.x + size.width,
\* position.y + size.height] for the current position and leaves the player.
C29_BoundingBox ==
    call.op = "Player.get_bounding_box" =>
        /\ call.result = << players[1].position[1], players[1].position[2],
                            players[1].position[1] + 10, players[1].position[2] + 60 >>
        /\ players[1] = call.player

\* The box of a player that has moved down to y = 40 in a field of height 100.
C29_Witness ==
    /\ call.op = "Player.get_bounding_box"
    /\ height = 100
    /\ players[1].position = <<10, 40>>
    /\ call.result = <<10, 40, 20, 100>>

(***************************************************************************)
(* The scoreboard (specification Spec) and the exit status (specification  *)
(* SpecMain).                                                              *)
(***************************************************************************)
\* C27: get_player_scores is [score of the left player, score of the right
\* player]; after every Application::on_update, and so at every render, the
\* scores the scoreboard keeps and draws are the scores of the field.
C27_ScoreboardShowsScores ==
    /\ get_player_scores(field) = << players[1].score, players[2].score >>
    /\ scoreboard = get_player_scores(field)
    /\ Scoreboard_on_render(scoreboard) = [left |-> players[1].score, right |-> players[2].score]

\* The tick in which the ball left on the left side: the right player has its
\* point and the scoreboard has it too.
C27_Witness ==
    /\ status = "LeftOnLeftSide"
    /\ players[1].score = 0
    /\ players[2].score = 1
    /\ scoreboard = <<0, 1>>

\* C30: the process exits with 0, 1 or 2: with 1 when Application::new returned a
\* Piston error, with 2 when it returned an I/O error, both after printing the
\* error, and with 0 when, and only when, Application::new succeeded and run
\* returned.
C30_ExitStatus ==
    process.pc = "exited" =>
        /\ process.code \in {0, 1, 2}
        /\ process.code = 1 <=>
              (call.op = "Application.new" /\ ~call.result.ok /\ call.result.error.kind = "Piston")
        /\ process.code = 2 <=>
              (call.op = "Application.new" /\ ~call.result.ok /\ call.result.error.kind = "IO")
        /\ process.code = 0 <=> (call.op = "Application.run" /\ field # NoField)
        /\ process.code # 0 =>
              process.stdout = << <<"Error: ", call.result.error.description>> >>
        /\ process.code = 0 => process.stdout = <<>>

\* The window was built and the assets folder was not found: exit status 2.
C30_Witness ==
    /\ process.pc = "exited"
    /\ process.code = 2
    /\ call.op = "Application.new"
    /\ call.result = [ok |-> FALSE, error |-> [kind |-> "IO", description |-> "NotFound"]]

(***************************************************************************)
(* Speeds, scores and the accumulator over whole games (specification      *)
(* Spec).                                                                  *)
(***************************************************************************)
\* The owner of paddle i gets a point in the step.
ScoresInStep(i) == players'[i].score = players[i].score + 1

\* C31: each paddle's speed is 150 + 10 * k, k the number of periodic speed-ups
\* since its owner scored last (or since Field::new): the speed starts at 150, is
\* 150 after a tick in which the owner scores, is 10 more after any other tick in
\* which the speed-up fires, the opponent scoring or not, and is left by every
\* other step; so it is never below 150.
C31_PaddleSpeed ==
    /\ \A i \in 1..2 : players[i].speed = 150
    /\ [][ /\ \A i \in 1..2 : players'[i].speed >= 150 /\ (players'[i].speed - 150) % 10 = 0
           /\ IF status' = "none"
                 THEN \A i \in 1..2 : players'[i].speed = players[i].speed
                 ELSE \E dt \in Dts :
                        LET fires == last_speed_change + dt >= 100
                        IN  /\ last_speed_change' = IF fires THEN 0 ELSE last_speed_change + dt
                            /\ \A i \in 1..2 :
                                  players'[i].speed =
                                      IF ScoresInStep(i) THEN 150
                                      ELSE IF fires THEN players[i].speed + 10
                                      ELSE players[i].speed ]_vars

\* The left paddle has been sped up and keeps its 160 through the point of the
\* right player, whose paddle is back at 150, and through the tick after it.
C31_Witness ==
    /\ status = "WithinGame"
    /\ players[1].speed = 160
    /\ players[2].speed = 150
    /\ players[2].score = 1
    /\ players[1].score = 0

(***************************************************************************)
(* More properties of Field::on_update (specification SpecUpdate).         *)
(***************************************************************************)
\* C32: when the speed-up fires in the tick in which the ball exits, then after
\* the tick the scoring player's paddle speed is 150, the other player's is 10
\* higher than before the tick, the accumulator is 0, and the ball is a new one
\* at the centre with a spawn speed (each component at least 100 and below 150).
C32_SpeedUpOnExit ==
    (call.op = "Field.on_update" /\ Fired /\ status # "WithinGame") =>
        /\ \A i \in 1..2 :
              players[i].speed = IF Scored(i) THEN 150 ELSE call.field.players[i].speed + 10
        /\ last_speed_change = 0
        /\ ball.position = << width \div 2 - 5, height \div 2 - 5 >>
        /\ \A k \in 1..2 : 100 <= Abs(ball.speed[k]) /\ Abs(ball.speed[k]) < 150

\* Both paddles at 160, the accumulator at 9.5 s: the ball leaves on the left in a
\* tick of 0.5 s, the right player scores and is back at 150, the left one is at 170.
C32_Witness ==
    /\ call.op = "Field.on_update"
    /\ call.field.last_speed_change = 95 /\ call.dt = 5
    /\ call.field.players[1].speed = 160 /\ call.field.players[2].speed = 160
    /\ status = "LeftOnLeftSide"
    /\ players[1].speed = 170
    /\ players[2].speed = 150
    /\ players[2].score = 1
    /\ last_speed_change = 0
    /\ ball.position = <<195, 95>>

(***************************************************************************)
(* The ball between the handles of a field (specification SpecBall): the   *)
(* window is 100 wide and the boxes are the handles of its two players.    *)
(***************************************************************************)
\* The call is the one a tick of a field 100 wide makes.
FieldCall ==
    /\ call.op = "Ball.update"
    /\ width = 100
    /\ call.obstacles = <<BoxP, BoxQ>>

\* C33: in a tick that starts with 0 <= position.y <= height - diameter and
\* returns WithinGame, a ball whose tentative position crosses the top has a
\* positive vertical speed after the tick, and one whose tentative position
\* crosses the bottom a negative one, a handle touched in the tick or not.
C33_WallBounceDirection ==
    (/\ FieldCall
     /\ 0 <= call.ball.position[2]
     /\ call.ball.position[2] <= height - call.ball.diameter
     /\ status = "WithinGame") =>
        /\ Tentative[2] < 0 => ball.speed[2] > 0
        /\ Tentative[2] + call.ball.diameter > height => ball.speed[2] < 0

\* C34: in a field (handles 10 wide at x = 10 and x = width - 20, ball of diameter
\* 10) a tick in which the ball is reported as exited flips no speed through a
\* handle: no collision test holds at the tentative position, and the ball that
\* exits has the speed and the position it had before the call.
C34_ExitExcludesCollision ==
    (FieldCall /\ status # "WithinGame") =>
        /\ VerticalHits = 0
        /\ HorizontalHits = 0
        /\ ball = call.ball

\* The ball leaves on the left past the left handle, level with it: its centre is
\* within the handle's y-span at the tentative position (-5, 30).
C34_Witness ==
    /\ FieldCall
    /\ call.ball.position = <<5, 40>>
    /\ call.ball.speed = <<-100, -100>>
    /\ call.dt = 1
    /\ status = "LeftOnLeftSide"
    /\ ball = call.ball

(***************************************************************************)
(* Scores and the accumulator over whole games (specification Spec).       *)
(***************************************************************************)
\* C35: the scores start at 0; a tick in which the ball exits, and so is replaced
\* by a new one, adds 1 to the score of exactly one player and leaves the other
\* score; every other tick, every key event and every resize leaves both scores.
\* So no score is negative or decreases, and the sum of the scores grows by 1 with
\* every ball replaced.
C35_ScoreAccounting ==
    /\ get_player_scores(field) = <<0, 0>>
    /\ [][ LET old == get_player_scores(field)
               new == << players'[1].score, players'[2].score >>
           IN  /\ new[1] >= 0 /\ new[2] >= 0
               /\ IF status' \in {"LeftOnLeftSide", "LeftOnRightSide"}
                     THEN /\ new \in { <<old[1] + 1, old[2]>>, <<old[1], old[2] + 1>> }
                          /\ ball' \in Ball_new(<<width', height'>>)
                     ELSE new = old ]_vars

\* Each player has scored once, the left one last.
C35_Witness ==
    /\ status = "LeftOnRightSide"
    /\ players[1].score = 1
    /\ players[2].score = 1

\* C36: after Field::new and after every on_update (dt not negative) the
\* accumulator satisfies 0 <= last_speed_change < 10.0 s, and no step other than
\* an on_update changes it: no key event, no resize, no render.
C36_Accumulator ==
    /\ [](0 <= last_speed_change /\ last_speed_change < SPEED_CHANGE_INTERVAL)
    /\ [][status' = "none" => last_speed_change' = last_speed_change]_vars

\* Half of the interval has passed, and the field was made larger after that.
C36_Witness ==
    /\ last_speed_change = 50
    /\ status = "none"
    /\ width = 1040
    /\ players[1].position[2] = 60

(***************************************************************************)
(* The speed-up of one tick, however long (specification SpecUpdate).      *)
(***************************************************************************)
\* C37: one on_update makes at most one speed-up of 10 however large dt is, 25 s
\* included: when the accumulator plus dt reaches 10.0 s the accumulator is 0
\* after the tick, the time above 10.0 s is dropped, and each paddle that did not
\* score is 10 faster, as is on each axis a ball that stays; otherwise the
\* accumulator is the sum and the speeds are left.
C37_OneSpeedUpPerTick ==
    call.op = "Field.on_update" =>
        LET old == call.field
            inc == IF Fired THEN 10 ELSE 0
        IN  /\ last_speed_change = IF Fired THEN 0 ELSE old.last_speed_change + call.dt
            /\ \A i \in 1..2 : ~Scored(i) => players[i].speed = old.players[i].speed + inc
            /\ status = "WithinGame" =>
                  \A k \in 1..2 : Abs(ball.speed[k]) = Abs(old.ball.speed[k]) + inc

\* A tick of 25 s on an accumulator of 9.5 s: one speed-up, the accumulator at 0.
C37_Witness ==
    /\ call.op = "Field.on_update"
    /\ call.dt = 250
    /\ call.field.last_speed_change = 95
    /\ call.field.players[1].speed = 150
    /\ last_speed_change = 0
    /\ ~Scored(1)
    /\ players[1].speed = 160

(***************************************************************************)
(* What key events leave alone (specification Spec).                       *)
(***************************************************************************)
\* C38: a press or a release of a key leaves the ball, the width, the height and
\* the accumulator, of both paddles the position, the size, the speed and the
\* score, and the whole of every paddle the key does not address; a paddle's
\* position.y changes in ticks only, and its position.x in resizes only.
C38_KeyEventFrame ==
    [][ /\ \A key \in Keys :
              (Pressed(key) \/ Released(key)) =>
                  /\ ball' = ball
                  /\ width' = width /\ height' = height
                  /\ last_speed_change' = last_speed_change
                  /\ \A i \in 1..2 :
                        /\ players'[i] = [players[i] EXCEPT !.movement = players'[i].movement]
                        /\ key \notin SideKeys(i) => players'[i] = players[i]
        /\ \A i \in 1..2 :
              /\ players'[i].position[2] # players[i].position[2] => status' # "none"
              /\ players'[i].position[1] # players[i].position[1] =>
                    \E size \in FieldSizes : Resized(size) ]_vars

\* The left paddle, sped up and moved down to y = 60, has been sent up by a key
\* and is where it was.
C38_Witness ==
    /\ status = "none"
    /\ players[1].movement = "Up"
    /\ players[1].position[2] = 60
    /\ players[1].speed = 160
    /\ players[2].movement = "None"

(***************************************************************************)
(* Progress of a held paddle (specification SpecHeld).                     *)
(***************************************************************************)
\* C39: in a field at least 60 high, a paddle whose movement stays Down through
\* updates with dt of at least 0.1 s reaches position.y = height - 60 and is
\* there from then on, and one whose movement stays Up reaches 0 and is there
\* from then on; a paddle at the end it is moving to stays there in every update
\* that leaves the movement.
C39_HeldPaddleArrives ==
    /\ <>[](height >= 60 /\ players[1].movement = "Down")
          => <>[](players[1].position[2] = height - 60)
    /\ <>[](height >= 60 /\ players[1].movement = "Up")
          => <>[](players[1].position[2] = 0)
    /\ [][ (height >= 60 /\ players'[1].movement = players[1].movement) =>
              /\ (players[1].movement = "Down" /\ players[1].position[2] = height - 60)
                    => players'[1].position[2] = height - 60
              /\ (players[1].movement = "Up" /\ players[1].position[2] = 0)
                    => players'[1].position[2] = 0 ]_vars

\* The paddle moving down in a field 100 high was at y = 40 before the update and
\* is at y = 40 after it.
C39_Witness ==
    /\ call.op = "Player.update"
    /\ height = 100
    /\ players[1].movement = "Down"
    /\ call.player.movement = "Down"
    /\ call.player.position[2] = 40
    /\ players[1].position[2] = 40

====
